---- MODULE Spec2Model ----
(***************************************************************************)
(* Model of the Nordigen API client (src/lib/nordigen.ts): one client      *)
(* instance, its header mapping, and the asynchronous calls running on it. *)
(* Every await of the source is a step boundary; the synchronous part of   *)
(* a method up to its fetch() is one step.                                 *)
(***************************************************************************)
EXTENDS Integers, Sequences, FiniteSets, Bags, TLC

(* ---------------------------------------------------------------------- *)
(* Bounds                                                                  *)
(* ---------------------------------------------------------------------- *)

\* number of calls that may be in progress on the instance at the same time
MaxConcurrent == 2

(* ---------------------------------------------------------------------- *)
(* JavaScript values.  Every value has the same three fields so that any   *)
(* two values can be compared: t is the type tag, s the scalar payload,    *)
(* f the property list <<key, value>> of an object in insertion order.     *)
(* ---------------------------------------------------------------------- *)

Str(s) == [t |-> "str", s |-> s, f |-> <<>>]
Num(s) == [t |-> "num", s |-> s, f |-> <<>>]
Bool(b) == [t |-> "bool", s |-> IF b THEN "true" ELSE "false", f |-> <<>>]
DateV(iso) == [t |-> "date", s |-> iso, f |-> <<>>]
Undefined == [t |-> "undef", s |-> "", f |-> <<>>]
Null == [t |-> "null", s |-> "", f |-> <<>>]
False == Bool(FALSE)
Obj(pairs) == [t |-> "obj", s |-> "", f |-> pairs]
Arr(pairs) == [t |-> "arr", s |-> "", f |-> pairs]

Keys(o) == {o.f[i][1] : i \in 1..Len(o.f)}

\* o.k : the value of property k, undefined when o has no such property
Get(o, k) ==
  IF \E i \in 1..Len(o.f) : o.f[i][1] = k
  THEN LET i == CHOOSE j \in 1..Len(o.f) : o.f[j][1] = k IN o.f[i][2]
  ELSE Undefined

\* variant: the property is added again instead of being overwritten
SetPropertyAppends(props, k, v) ==
  IF Len(props) < 6 THEN Append(props, <<k, v>>) ELSE props

\* o.k = v on a property list: overwrite in place, or append a new property
SetProperty(props, k, v) ==
  IF \E i \in 1..Len(props) : props[i][1] = k
  THEN [i \in 1..Len(props) |-> IF props[i][1] = k THEN <<k, v>> ELSE props[i]]
  ELSE Append(props, <<k, v>>)

\* `${v}` : string conversion of a template literal
TemplateString(v) ==
  CASE v.t = "undef" -> "undefined"
    [] v.t = "null" -> "null"
    [] v.t = "obj" -> "[object Object]"
    [] OTHER -> v.s

\* if (v) : JavaScript truthiness
Truthy(v) ==
  CASE v.t \in {"undef", "null"} -> FALSE
    [] v.t = "bool" -> v.s = "true"
    [] v.t = "str" -> v.s # ""
    [] OTHER -> TRUE

(* ---------------------------------------------------------------------- *)
(* JSON.stringify / Response.json                                         *)
(* ---------------------------------------------------------------------- *)

\* serialization of a scalar: a Date becomes its ISO string
\* (Date.prototype.toJSON); other scalars are written as they are
StringifyScalar(v) == IF v.t = "date" THEN Str(v.s) ELSE v

\* serialization of a nested object or array: an undefined property of an
\* object is skipped, an undefined element of an array is written as null
StringifyNested(v) ==
  LET kept == IF v.t = "obj"
              THEN SelectSeq(v.f, LAMBDA q : q[2].t # "undef")
              ELSE v.f
  IN [v EXCEPT !.f = [j \in 1..Len(kept) |->
                        <<kept[j][1],
                          IF kept[j][2].t = "undef" THEN Null
                          ELSE StringifyScalar(kept[j][2])>>]]

\* properties whose value is undefined are skipped by JSON.stringify
StringifyProps(props) ==
  LET kept == SelectSeq(props, LAMBDA p : p[2].t # "undef")
  IN [i \in 1..Len(kept) |->
        <<kept[i][1],
          IF kept[i][2].t \in {"obj", "arr"}
          THEN StringifyNested(kept[i][2])
          ELSE StringifyScalar(kept[i][2])>>]

\* JSON.stringify(body) for a body object: the JSON document that is sent
JSONStringify(body) == Obj(StringifyProps(body.f))

\* a raw response body: either a JSON document or text that is not JSON
JsonText(doc) == [json |-> TRUE, doc |-> doc]
NotJson == [json |-> FALSE, doc |-> Null]

\* Response.json() / JSON.parse: the value a JSON text parses to
JSONParse(raw) == raw.doc

(* ---------------------------------------------------------------------- *)
(* Inputs                                                                  *)
(* ---------------------------------------------------------------------- *)

DefaultEndpoint == "https://ob.nordigen.com/api/v2"
Endpoints == {DefaultEndpoint, "https://ob.beta.nordigen.com/api"}
Credentials == {<<"secretId", "secretKey">>}
CountryCodes == {"NL"}
Ids == {"id1"}

\* an agreement as the API returns it (dates are strings), and one built
\* as the EndUserAgreement type declares it (created is a Date)
AgreementJson ==
  Obj(<< <<"id", Str("ag1")>>, <<"created", Str("2024-01-01T00:00:00.000Z")>>,
         <<"accepted", Null>> >>)
AgreementTyped ==
  Obj(<< <<"id", Str("ag1")>>, <<"created", DateV("2024-01-01T00:00:00.000Z")>>,
         <<"accepted", Null>> >>)

\* parameter objects of createRequisition
RequisitionParams ==
  { Obj(<< <<"redirect", Str("https://example.com/nordigen-callback")>>,
           <<"institutionId", Str("bank1")>>,
           <<"reference", Str("demo_id")>>,
           <<"agreement", AgreementJson>>,
           <<"userLanguage", Str("EN/us")>>,
           <<"accountSelection", Bool(TRUE)>> >>),
    Obj(<< <<"redirect", Str("https://example.com/nordigen-callback")>>,
           <<"institutionId", Str("bank1")>>,
           <<"agreement", AgreementTyped>>,
           <<"accountSelection", Bool(FALSE)>> >>) }

\* parameter objects of createEndUserAgreement
AgreementParams ==
  { Obj(<< <<"institutionId", Str("bank1")>>,
           <<"maxHistoricalDays", Num("60")>>,
           <<"accessScope", Arr(<< <<"0", Str("balances")>>,
                                   <<"1", Str("details")>> >>)>> >>) }

\* arguments of direct makeRequest calls: <<path, method, body>>; an
\* omitted argument is undefined
DirectRequests ==
  { << <<"/agreements/enduser/MY_ID">>, Str("DELETE"), Obj(<<>>) >>,
    << <<"/requisitions/">>, Str("GET"),
       Obj(<< <<"limit", Num("1")>>, <<"offset", Undefined>> >>) >>,
    << <<"/requisitions/">>, Str("POST"), False >> }

\* what the provider may answer
Statuses == {200, 401, 500}
TokenPayload(tok) ==
  Obj(<< <<"access", Str(tok)>>, <<"access_expires", Num("86400")>>,
         <<"refresh", Str("R")>>, <<"refresh_expires", Num("2592000")>> >>)
ErrorPayload ==
  Obj(<< <<"summary", Str("Authentication failed")>>,
         <<"status_code", Num("401")>> >>)
RawBodies ==
  { JsonText(TokenPayload("T")), JsonText(TokenPayload("T2")),
    JsonText(ErrorPayload), JsonText(Null), NotJson }

(* ---------------------------------------------------------------------- *)
(* State                                                                   *)
(* ---------------------------------------------------------------------- *)

VARIABLES
  secretId,       \* this.secretId
  secretKey,      \* this.secretKey
  endpoint,       \* this.endpoint
  headers,        \* this.headers: property list <<name, value>>
  calls,          \* the calls in progress on the instance (a bag of frames)
  lastAccess,     \* history: response.access as generateToken last read it
  authenticated   \* history: some token exchange has returned an access token

vars == <<secretId, secretKey, endpoint, headers, calls, lastAccess,
          authenticated>>

client == <<secretId, secretKey, endpoint, headers>>

NoRequest ==
  [url |-> <<>>, verb |-> "", headers |-> <<>>, hasBody |-> FALSE,
   body |-> NotJson]

\* new Nordigen(id, key, url): the state the constructor leaves
Constructed(id, key, url) ==
  /\ secretId = id
  /\ secretKey = key
  /\ endpoint = url
  /\ headers = << <<"accept", <<"application/json">> >>,
                  <<"Content-Type", <<"application/json">> >>,
                  <<"User-Agent", <<"Nordigen-Node-v2">> >> >>
  /\ calls = EmptyBag
  /\ lastAccess = Undefined
  /\ authenticated = FALSE

\* new Nordigen(secretId, secretKey): endpoint takes its default value
Init ==
  \E cred \in Credentials : Constructed(cred[1], cred[2], DefaultEndpoint)

\* new Nordigen(secretId, secretKey, endpoint)
InitWithEndpoint ==
  \E cred \in Credentials, url \in Endpoints :
    Constructed(cred[1], cred[2], url)

Frames == BagToSet(calls)
Begin(r) == calls' = calls (+) SetToBag({r})
Step(r, r2) == calls' = (calls (-) SetToBag({r})) (+) SetToBag({r2})
End(r) == calls' = calls (-) SetToBag({r})

(* ---------------------------------------------------------------------- *)
(* makeRequest, up to its first await                                      *)
(* ---------------------------------------------------------------------- *)

\* default parameter values: method = "GET", body = false
MethodOrDefault(method) == IF method.t = "undef" THEN "GET" ELSE method.s
BodyOrDefault(body) == IF body.t = "undef" THEN False ELSE body

\* variant: a GET request is never given a body
FetchInitNoBodyOnGet(path, method, body) ==
  [url |-> <<endpoint>> \o path,
   verb |-> MethodOrDefault(method),
   headers |-> headers,
   hasBody |-> Truthy(BodyOrDefault(body)) /\ MethodOrDefault(method) # "GET",
   body |-> IF Truthy(BodyOrDefault(body)) /\ MethodOrDefault(method) # "GET"
            THEN JsonText(JSONStringify(BodyOrDefault(body)))
            ELSE NotJson]

\* the init object of fetch: { method, headers, ...(body ? { body } : {}) }
FetchInit(path, method, body) ==
  [url |-> <<endpoint>> \o path,
   verb |-> MethodOrDefault(method),
   headers |-> headers,
   hasBody |-> Truthy(BodyOrDefault(body)),
   body |-> IF Truthy(BodyOrDefault(body))
            THEN JsonText(JSONStringify(BodyOrDefault(body)))
            ELSE NotJson]

\* what runs after `await this.makeRequest(...)` in each method
Continuation(op) ==
  CASE op = "generateToken" -> "assignAuthorization"
    [] op \in {"makeRequest", "getInstitutions"} -> "none"
    [] OTHER -> "return"

\* A frame is one call in progress:
\*   pc        the await it is suspended at, or done / failed
\*   op, args  the method called and its arguments
\*   cont      what runs when makeRequest returns to the method
\*   request   what fetch was called with; nreq counts the fetch calls
\*   status    status of the Response; raw the body json() read from it
\*   response  makeRequest's return value, result the call's own
\*   error     the exception that ended the call
\*   token     history: lastAccess when the call was made

\* variant: a request without a body removes Content-Type from this.headers
SendDropsContentType(op, args, path, method, body) ==
  /\ BagCardinality(calls) < MaxConcurrent
  /\ Begin([pc |-> "awaitFetch", op |-> op, cont |-> Continuation(op),
            args |-> args, request |-> FetchInit(path, method, body),
            token |-> lastAccess, nreq |-> 1, status |-> 0, raw |-> NotJson,
            response |-> Undefined, result |-> Undefined, error |-> ""])
  /\ headers' = IF Truthy(BodyOrDefault(body)) THEN headers
                ELSE SelectSeq(headers, LAMBDA e : e[1] # "Content-Type")
  /\ UNCHANGED <<secretId, secretKey, endpoint, lastAccess, authenticated>>

\* the frame of a call of method op with arguments args after its synchronous
\* part, which runs makeRequest(path, method, body) up to `await fetch(...)`
Send(op, args, path, method, body) ==
  /\ BagCardinality(calls) < MaxConcurrent
  /\ Begin([pc |-> "awaitFetch", op |-> op, cont |-> Continuation(op),
            args |-> args, request |-> FetchInit(path, method, body),
            token |-> lastAccess, nreq |-> 1, status |-> 0, raw |-> NotJson,
            response |-> Undefined, result |-> Undefined, error |-> ""])
  /\ UNCHANGED <<client, lastAccess, authenticated>>

(* ---------------------------------------------------------------------- *)
(* The methods                                                             *)
(* ---------------------------------------------------------------------- *)

generateToken ==
  Send("generateToken", Obj(<<>>), <<"/token/new/">>, Str("POST"),
       Obj(<< <<"secret_id", Str(secretId)>>,
              <<"secret_key", Str(secretKey)>> >>))

makeRequest ==
  \E a \in DirectRequests :
    Send("makeRequest", Obj(<< <<"method", a[2]>>, <<"body", a[3]>> >>),
         a[1], a[2], a[3])

getInstitutions ==
  \E countryCode \in CountryCodes :
    Send("getInstitutions", Obj(<< <<"countryCode", Str(countryCode)>> >>),
         <<"/institutions/?country=", countryCode>>, Undefined, Undefined)

EndUserAgreementBody(p) ==
  Obj(<< <<"institution_id", Get(p, "institutionId")>>,
         <<"max_historical_days", Get(p, "maxHistoricalDays")>>,
         <<"access_valid_for_days", Get(p, "accessValidForDays")>>,
         <<"access_scope", Get(p, "accessScope")>> >>)

createEndUserAgreement ==
  \E p \in AgreementParams :
    Send("createEndUserAgreement", p, <<"/agreements/enduser/">>,
         Str("POST"), EndUserAgreementBody(p))

RequisitionBody(p) ==
  Obj(<< <<"redirect", Get(p, "redirect")>>,
         <<"institution_id", Get(p, "institutionId")>>,
         <<"reference", Get(p, "reference")>>,
         <<"agreement", Get(p, "agreement")>>,
         <<"user_language", Get(p, "userLanguage")>>,
         <<"account_selection", Get(p, "accountSelection")>> >>)

createRequisition ==
  \E p \in RequisitionParams :
    Send("createRequisition", p, <<"/requisitions/">>, Str("POST"),
         RequisitionBody(p))

\* variant: the path has no trailing slash
getRequisitionInfoNoSlash ==
  \E requisitionId \in Ids :
    Send("getRequisitionInfo",
         Obj(<< <<"requisitionId", Str(requisitionId)>> >>),
         <<"/requisitions/", requisitionId>>, Undefined, Undefined)

getRequisitionInfo ==
  \E requisitionId \in Ids :
    Send("getRequisitionInfo",
         Obj(<< <<"requisitionId", Str(requisitionId)>> >>),
         <<"/requisitions/", requisitionId, "/">>, Undefined, Undefined)

getAccountBalances ==
  \E accountId \in Ids :
    Send("getAccountBalances", Obj(<< <<"accountId", Str(accountId)>> >>),
         <<"/accounts/", accountId, "/balances/">>, Undefined, Undefined)

getAccountTransactions ==
  \E accountId \in Ids :
    Send("getAccountTransactions", Obj(<< <<"accountId", Str(accountId)>> >>),
         <<"/accounts/", accountId, "/transactions/">>, Undefined, Undefined)

getAccountDetails ==
  \E accountId \in Ids :
    Send("getAccountDetails", Obj(<< <<"accountId", Str(accountId)>> >>),
         <<"/accounts/", accountId, "/details/">>, Undefined, Undefined)

(* ---------------------------------------------------------------------- *)
(* The awaits.  Once fetch has settled, the frame no longer holds the      *)
(* method's name, arguments and request (nothing reads them again), only   *)
(* the continuation that waits for makeRequest; the Response object is     *)
(* dropped once json() has settled, and the continuation once it has run.  *)
(* ---------------------------------------------------------------------- *)

\* variant: the exception is caught and the call returns undefined
ThrownSwallowed(r, err) ==
  [r EXCEPT !.pc = "done", !.op = "", !.cont = "", !.args = Undefined,
            !.request = NoRequest, !.token = Undefined, !.status = 0,
            !.response = Undefined,
            !.result = Undefined, !.error = err]

\* the frame of a call that ended in an exception: a rejected await leaves
\* makeRequest and the method that called it (the class has no try/catch)
Thrown(r, err) ==
  [r EXCEPT !.pc = "failed", !.op = "", !.cont = "", !.args = Undefined,
            !.request = NoRequest, !.token = Undefined, !.status = 0,
            !.response = Undefined,
            !.result = Undefined, !.error = err]

\* variant: a rejected fetch is tried once more
FetchRejectsRetries ==
  \E r \in Frames :
    /\ r.pc = "awaitFetch"
    /\ Step(r, IF r.nreq < 2 THEN [r EXCEPT !.nreq = r.nreq + 1]
               ELSE [r EXCEPT !.pc = "failed", !.op = "", !.cont = "",
                              !.args = Undefined, !.request = NoRequest,
                              !.token = Undefined, !.error = "transport"])
    /\ UNCHANGED <<client, lastAccess, authenticated>>

\* `await fetch(...)` rejects: transport failure
FetchRejects ==
  \E r \in Frames :
    /\ r.pc = "awaitFetch"
    /\ Step(r, Thrown(r, "transport"))
    /\ UNCHANGED <<client, lastAccess, authenticated>>

\* `await fetch(...)` resolves with the provider's status line;
\* makeRequest goes on to `await request.json()`
FetchResolves ==
  \E r \in Frames, status \in Statuses :
    /\ r.pc = "awaitFetch"
    /\ Step(r, [r EXCEPT !.pc = "awaitJson", !.op = "", !.args = Undefined,
                         !.request = NoRequest, !.token = Undefined,
                         !.status = status])
    /\ UNCHANGED <<client, lastAccess, authenticated>>

\* `await request.json()` rejects: the body is not JSON
JsonRejects ==
  \E r \in Frames, raw \in RawBodies :
    /\ r.pc = "awaitJson"
    /\ ~ raw.json
    /\ Step(r, Thrown([r EXCEPT !.raw = raw], "parse"))
    /\ UNCHANGED <<client, lastAccess, authenticated>>

\* variant: a status of 400 or more is thrown instead of returning the body
JsonResolvesChecksStatus ==
  \E r \in Frames, raw \in RawBodies :
    /\ r.pc = "awaitJson"
    /\ raw.json
    /\ Step(r, IF r.status >= 400
               THEN [r EXCEPT !.pc = "failed", !.cont = "", !.status = 0,
                                    !.raw = raw, !.error = "status"]
               ELSE IF r.cont = "none"
               THEN [r EXCEPT !.pc = "done", !.cont = "", !.status = 0,
                              !.raw = raw, !.result = JSONParse(raw)]
               ELSE [r EXCEPT !.pc = "awaitMake", !.status = 0, !.raw = raw,
                              !.response = JSONParse(raw)])
    /\ UNCHANGED <<client, lastAccess, authenticated>>

\* `await request.json()` resolves and makeRequest returns the parsed body:
\* to its caller's await, or as the result of the call when nothing awaits it
JsonResolves ==
  \E r \in Frames, raw \in RawBodies :
    /\ r.pc = "awaitJson"
    /\ raw.json
    /\ Step(r, IF r.cont = "none"
               THEN [r EXCEPT !.pc = "done", !.cont = "", !.status = 0,
                              !.raw = raw, !.result = JSONParse(raw)]
               ELSE [r EXCEPT !.pc = "awaitMake", !.status = 0, !.raw = raw,
                              !.response = JSONParse(raw)])
    /\ UNCHANGED <<client, lastAccess, authenticated>>

\* generateToken after its await:
\*   this.headers.Authorization = `Bearer ${response.access}`
\* reading a property of null throws a TypeError
GenerateTokenResumes ==
  \E r \in Frames :
    /\ r.pc = "awaitMake"
    /\ r.cont = "assignAuthorization"
    /\ IF r.response.t = "null"
       THEN /\ Step(r, Thrown([r EXCEPT !.raw = NotJson], "TypeError"))
            /\ UNCHANGED <<headers, lastAccess, authenticated>>
       ELSE /\ headers' = SetProperty(headers, "Authorization",
                 <<"Bearer ", TemplateString(Get(r.response, "access"))>>)
            /\ Step(r, [r EXCEPT !.pc = "done", !.cont = "", !.raw = NotJson,
                                 !.response = Undefined])
            /\ lastAccess' = Get(r.response, "access")
            /\ authenticated' =
                 (authenticated \/ Get(r.response, "access").t = "str")
    /\ UNCHANGED <<secretId, secretKey, endpoint>>

\* an endpoint method after its await: return the response
EndpointResumes ==
  \E r \in Frames :
    /\ r.pc = "awaitMake"
    /\ r.cont = "return"
    /\ Step(r, [r EXCEPT !.pc = "done", !.cont = "", !.result = r.response,
                         !.response = Undefined])
    /\ UNCHANGED <<client, lastAccess, authenticated>>

\* the caller's await of the call settles and the frame is gone
Settled ==
  \E r \in Frames :
    /\ r.pc \in {"done", "failed"}
    /\ End(r)
    /\ UNCHANGED <<client, lastAccess, authenticated>>

Next ==
  \/ generateToken
  \/ makeRequest
  \/ getInstitutions
  \/ createEndUserAgreement
  \/ createRequisition
  \/ getRequisitionInfo
  \/ getAccountBalances
  \/ getAccountTransactions
  \/ getAccountDetails
  \/ FetchRejects
  \/ FetchResolves
  \/ JsonRejects
  \/ JsonResolves
  \/ GenerateTokenResumes
  \/ EndpointResumes
  \/ Settled

Spec == Init /\ [][Next]_vars

SpecWithEndpoint == InitWithEndpoint /\ [][Next]_vars

(* ---------------------------------------------------------------------- *)
(* Vocabulary of the properties                                            *)
(* ---------------------------------------------------------------------- *)

\* frames of the next state that the step put there, and frames of the
\* current state that the step took away
Arrives(r2) == CopiesIn(r2, calls') > CopiesIn(r2, calls)
Leaves(r) == CopiesIn(r, calls') < CopiesIn(r, calls)

\* the step is the synchronous part of a call: r2 is its frame, fetch called
Sent(r2) == r2.pc = "awaitFetch" /\ Arrives(r2)

\* the entries of a header list that are named Authorization
AuthorizationEntries(h) == SelectSeq(h, LAMBDA e : e[1] = "Authorization")

ReadMethods ==
  {"getInstitutions", "getRequisitionInfo", "getAccountBalances",
   "getAccountTransactions", "getAccountDetails"}

InFlight(op) == {r \in Frames : r.pc = "awaitFetch" /\ r.op = op}

(* ---------------------------------------------------------------------- *)
(* C1                                                                      *)
(* ---------------------------------------------------------------------- *)

C2_WritesOnlyOnSuccess ==
  [][/\ headers' # headers
          => \E r \in Frames :
               /\ Leaves(r) /\ r.cont = "assignAuthorization"
               /\ Get(r.response, "access").t = "str"
     /\ \A r \in Frames :
          (/\ Leaves(r) /\ r.cont = "assignAuthorization"
           /\ r.pc = "awaitMake" /\ Get(r.response, "access").t # "str")
            => /\ headers' = headers
               /\ \E r2 \in BagToSet(calls') : Arrives(r2) /\ r2.pc = "failed"
     /\ \A r \in Frames, r2 \in BagToSet(calls') :
          (/\ Leaves(r) /\ r.cont = "assignAuthorization"
           /\ Arrives(r2) /\ r2.error # "")
            => r2.pc = "failed" /\ headers' = headers]_vars

(* ---------------------------------------------------------------------- *)
(* C3                                                                      *)
(* ---------------------------------------------------------------------- *)

\* the properties of a body object that JSON has a text for
Defined(b) == {k \in Keys(b) : Get(b, k).t # "undef"}

\* C3: makeRequest called with body = false (or without a body) hands fetch
\* no body; called with a body object it hands fetch the JSON text of that
\* object, with the object's properties and values and no others; the method
\* plays no part in this.
C3_BodyIsTheArgument ==
  \A r \in InFlight("makeRequest") :
    LET b == Get(r.args, "body") IN
      /\ b.t \in {"bool", "undef"} => ~ r.request.hasBody
      /\ b.t = "obj" =>
           /\ r.request.hasBody
           /\ r.request.body.json
           /\ Keys(r.request.body.doc) = Defined(b)
           /\ Len(r.request.body.doc.f) = Cardinality(Defined(b))
           /\ \A k \in Defined(b) : Get(r.request.body.doc, k) = Get(b, k)

\* a GET with a body object, a DELETE with the empty object and a POST with
\* body = false have all been handed to fetch
C3_Witness ==
  /\ \E r \in InFlight("makeRequest") :
       /\ r.request.verb = "GET" /\ r.request.hasBody
       /\ Keys(r.request.body.doc) = {"limit"}
  /\ \E r \in InFlight("makeRequest") :
       r.request.verb = "POST" /\ ~ r.request.hasBody

(* ---------------------------------------------------------------------- *)
(* C4                                                                      *)
(* ---------------------------------------------------------------------- *)

\* C4: a transport failure or a body that is not JSON ends the call in a
\* failure: the call has no result, and the step that fails it, like every
\* step that is not a generateToken completing, leaves the credentials, the
\* header mapping and the base URL as they were.
C4_FailurePropagates ==
  [][/\ \A r2 \in BagToSet(calls') :
          (Arrives(r2) /\ r2.error \in {"transport", "parse"})
            => r2.pc = "failed" /\ r2.result = Undefined /\ client' = client
     /\ (\A r \in Frames : Leaves(r) => r.cont # "assignAuthorization")
          => client' = client]_vars

\* one call has failed in transport and another on a body that is not JSON,
\* while the client holds a token
C4_Witness ==
  /\ \E r \in Frames : r.pc = "failed" /\ r.error = "transport"
  /\ \E r \in Frames : r.pc = "failed" /\ r.error = "parse" /\ ~ r.raw.json
  /\ lastAccess.t = "str"

(* ---------------------------------------------------------------------- *)
(* C5                                                                      *)
(* ---------------------------------------------------------------------- *)

\* C5: whatever the status, once the body of a response to makeRequest or to
\* an endpoint method has been read and is JSON, the call goes on with the
\* parsed document and returns it unchanged; it never fails.
C5_BodyVerbatim ==
  \A r \in Frames :
    (r.cont # "assignAuthorization" /\ r.raw.json)
      => \/ r.pc = "awaitMake" /\ r.response = r.raw.doc
         \/ r.pc = "done" /\ r.result = r.raw.doc

\* a call has returned the provider's error payload as its value, while
\* an endpoint method goes on with the document of a response
C5_Witness ==
  /\ \E r \in Frames : r.pc = "done" /\ r.result = ErrorPayload
  /\ \E r \in Frames :
       r.pc = "awaitMake" /\ r.cont = "return" /\ r.response = TokenPayload("T")

(* ---------------------------------------------------------------------- *)
(* C6                                                                      *)
(* ---------------------------------------------------------------------- *)

\* the verb and the path of each endpoint method, as the interface table
\* gives them, for the argument object a
TableVerb(op) ==
  IF op \in {"generateToken", "createEndUserAgreement", "createRequisition"}
  THEN "POST" ELSE "GET"

TablePath(op, a) ==
  CASE op = "getInstitutions" ->
         <<"/institutions/?country=", Get(a, "countryCode").s>>
    [] op = "createEndUserAgreement" -> <<"/agreements/enduser/">>
    [] op = "createRequisition" -> <<"/requisitions/">>
    [] op = "getRequisitionInfo" ->
         <<"/requisitions/", Get(a, "requisitionId").s, "/">>
    [] op = "getAccountBalances" ->
         <<"/accounts/", Get(a, "accountId").s, "/balances/">>
    [] op = "getAccountTransactions" ->
         <<"/accounts/", Get(a, "accountId").s, "/transactions/">>
    [] op = "getAccountDetails" ->
         <<"/accounts/", Get(a, "accountId").s, "/details/">>
    [] OTHER -> <<"/token/new/">>

\* C6: the request of every endpoint method goes to the client's base URL
\* followed by the method's path for its argument, with the method's verb:
\* POST for generateToken, createEndUserAgreement and createRequisition, GET
\* for the others.
C6_UrlAndVerb ==
  \A r \in Frames :
    (r.pc = "awaitFetch" /\ r.op # "makeRequest")
      => /\ r.request.url = <<endpoint>> \o TablePath(r.op, r.args)
         /\ r.request.verb = TableVerb(r.op)

\* on a client built with another base URL, a GET for the requisition id1
\* and a POST of a requisition are in flight
C6_Witness ==
  /\ endpoint # DefaultEndpoint
  /\ \E r \in InFlight("getRequisitionInfo") :
       /\ r.request.url = <<endpoint, "/requisitions/", "id1", "/">>
       /\ r.request.verb = "GET"
  /\ \E r \in InFlight("createRequisition") : r.request.verb = "POST"

(* ---------------------------------------------------------------------- *)
(* C7                                                                      *)
(* ---------------------------------------------------------------------- *)

OptionalFields ==
  { <<"reference", "reference">>, <<"agreement", "agreement">>,
    <<"userLanguage", "user_language">>,
    <<"accountSelection", "account_selection">> }

\* C7: reading back the JSON body of a createRequisition request gives each
\* optional field with exactly the value it was supplied with, has no key
\* for an optional field that was not supplied, and always has redirect and
\* institution_id.
C7_RoundTrip ==
  \A r \in InFlight("createRequisition") :
    LET back == JSONParse(r.request.body) IN
      /\ r.request.hasBody /\ r.request.body.json
      /\ Get(back, "redirect") = Get(r.args, "redirect")
      /\ Get(back, "institution_id") = Get(r.args, "institutionId")
      /\ \A o \in OptionalFields :
           IF o[1] \in Keys(r.args)
           THEN Get(back, o[2]) = Get(r.args, o[1])
           ELSE o[2] \notin Keys(back)

(* ---------------------------------------------------------------------- *)
(* C8                                                                      *)
(* ---------------------------------------------------------------------- *)

\* C8: as long as no token exchange has returned an access token, every
\* request that is sent, the token request included, carries no
\* Authorization header; and the request is sent all the same.
C8_NoHeaderBeforeToken ==
  [][\A r2 \in BagToSet(calls') :
       (Sent(r2) /\ ~ authenticated)
         => /\ AuthorizationEntries(r2.request.headers) = <<>>
            /\ r2.nreq = 1]_vars

(* ---------------------------------------------------------------------- *)
(* C9                                                                      *)
(* ---------------------------------------------------------------------- *)

\* C9: every call has called fetch exactly once, whatever became of it, and
\* a call is over (returned or failed) only when that fetch has settled.
C9_OneRoundTrip ==
  \A r \in Frames :
    /\ r.nreq = 1
    /\ r.pc \in {"done", "failed"} => r.request = NoRequest

\* a call that returned a value, one that failed in transport after its one
\* request
C9_Witness ==
  /\ \E r \in Frames : r.pc = "done" /\ r.nreq = 1 /\ r.raw.json
  /\ \E r \in Frames : r.pc = "failed" /\ r.error = "transport" /\ r.nreq = 1

(* ---------------------------------------------------------------------- *)
(* C10                                                                     *)
(* ---------------------------------------------------------------------- *)

FixedHeaders ==
  << <<"accept", <<"application/json">> >>,
     <<"Content-Type", <<"application/json">> >>,
     <<"User-Agent", <<"Nordigen-Node-v2">> >> >>

\* C10: under every interleaving of the calls in progress, only a
\* generateToken that resumes after its token request changes the header
\* mapping; the accept, Content-Type and User-Agent entries stay as
\* constructed; every request carries the mapping as it is when the request
\* is sent, so requests sent between two writes carry the same token; and a
\* call returns the document of the body it read itself.
C10_Independent ==
  [][/\ headers' # headers
          => \E r \in Frames :
               Leaves(r) /\ r.pc = "awaitMake" /\ r.cont = "assignAuthorization"
     /\ SubSeq(headers', 1, 3) = FixedHeaders
     /\ \A r2 \in BagToSet(calls') :
          Sent(r2) => r2.request.headers = headers /\ headers' = headers
     /\ \A r2 \in BagToSet(calls') :
          (Arrives(r2) /\ r2.pc = "done" /\ r2.raw.json)
            => r2.result = r2.raw.doc]_vars

\* two read requests carrying the same Bearer token are in flight together
C10_Witness ==
  /\ lastAccess.t = "str"
  /\ \E r \in InFlight("getAccountBalances") :
       \E q \in InFlight("getAccountTransactions") :
         /\ r.request.headers = q.request.headers
         /\ r.request.headers = headers
         /\ Len(AuthorizationEntries(headers)) = 1
====
